---- MODULE Spec2Model ----
(***************************************************************************)
(* The CloudSpanner tree transaction of storage/cloudspanner/tree_storage.go *)
(* as a state machine: the open/closed life cycle of treeTX (Commit,        *)
(* Rollback, Close, IsOpen), the once-only revision resolution               *)
(* (getLatestRoot), the node reads and writes that go through the subtree   *)
(* cache (GetMerkleNodes, SetMerkleNodes) and the revisioned subtree read    *)
(* (getSubtree).                                                             *)
(***************************************************************************)
EXTENDS Integers, Sequences, FiniteSets, TLC

(***************************************************************************)
(* Bounds of the model.                                                      *)
(***************************************************************************)
NumCallers == 2
MaxRev == 3
MaxRows == 3
MaxHeadRev == 2
MaxLeaked == 1
MaxCount == 2
MaxPathLen == 2

Procs == 1..NumCallers
Revs == 0..MaxRev

(***************************************************************************)
(* Values.  A Go pointer or slice that may be nil is a sequence of length   *)
(* at most one: <<>> is nil, <<x>> points to x.                              *)
(***************************************************************************)
Nil == <<>>
NoErr == "nil"
ErrTransactionClosed == "ErrTransactionClosed"
ErrWrongTXType == "ErrWrongTXType"
ErrTreeNeedsInit == "ErrTreeNeedsInit"
errFinished == "errFinished"
ErrUnknownTXType == "internal error: unknown transaction type"
ErrNotAligned == "id.PrefixLenBits is not a multiple of 8"
ErrWrongPrefix == "got subtree with wrong prefix"
ErrWrongRev == "got subtree rev, wanted <="
ErrUnmarshal == "proto.Unmarshal failed"
ErrBackend == "backend call failed"
ErrNotFound == "not found"

(***************************************************************************)
(* storage.NodeID and the subtree key.                                       *)
(***************************************************************************)
NodeID(path, bits) == [Path |-> path, PrefixLenBits |-> bits]

\* subtreeKey without the alignment check: the prefix length is rounded down
\* to whole bytes.
subtreeKeyNoCheck(id) ==
    [key |-> <<SubSeq(id.Path, 1, id.PrefixLenBits \div 8)>>, err |-> NoErr]

\* subtreeKey: the leading PrefixLenBits/8 bytes of the path, or an alignment
\* error and no key.
subtreeKey(id) ==
    IF id.PrefixLenBits % 8 /= 0
    THEN [key |-> Nil, err |-> ErrNotAligned]
    ELSE [key |-> <<SubSeq(id.Path, 1, id.PrefixLenBits \div 8)>>, err |-> NoErr]

\* The contents of a []byte that may be nil (bytes.Equal and len read a nil
\* slice as the empty one).
BytesOf(b) == IF b = Nil THEN <<>> ELSE b[1]

bytesEqual(a, b) == BytesOf(a) = BytesOf(b)

(***************************************************************************)
(* storagepb.SubtreeProto and its wire form.  proto3 leaves an empty bytes   *)
(* field off the wire, so a subtree whose Prefix is empty comes back from    *)
(* Unmarshal with a nil Prefix.  Garbage is a blob that does not decode.     *)
(***************************************************************************)
SubtreeProto(prefix, leaves) == [Prefix |-> prefix, Leaves |-> leaves]

Marshal(st) == <<"SubtreeProto", BytesOf(st.Prefix), st.Leaves>>

Garbage == <<"garbage">>

CanUnmarshal(blob) == blob[1] = "SubtreeProto"

Unmarshal(blob) ==
    SubtreeProto(IF blob[2] = <<>> THEN Nil ELSE <<blob[2]>>, blob[3])

(***************************************************************************)
(* The SubtreeData table: for each subtree key the rows (Revision, Subtree)  *)
(* in the order in which a prefix read of that key delivers them.            *)
(***************************************************************************)
Row(rev, blob) == [Revision |-> rev, Subtree |-> blob]

\* RowCallback with both revision comparisons one too lax.
RowCallbackLax(r, rev, stID) ==
    IF ~CanUnmarshal(r.Subtree)
    THEN [err |-> ErrUnmarshal, ret |-> Nil]
    ELSE LET st == Unmarshal(r.Subtree) IN
         IF r.Revision > rev + 1
         THEN [err |-> NoErr, ret |-> Nil]
         ELSE IF ~bytesEqual(stID, st.Prefix)
         THEN [err |-> ErrWrongPrefix, ret |-> Nil]
         ELSE [err |-> errFinished, ret |-> <<st>>]

\* The callback getSubtree hands to rows.Do, for one row: the error it
\* returns and the value it leaves in ret.
RowCallback(r, rev, stID) ==
    IF ~CanUnmarshal(r.Subtree)
    THEN [err |-> ErrUnmarshal, ret |-> Nil]
    ELSE LET st == Unmarshal(r.Subtree) IN
         IF r.Revision > rev
         THEN [err |-> NoErr, ret |-> Nil]
         ELSE IF ~bytesEqual(stID, st.Prefix)
         THEN [err |-> ErrWrongPrefix, ret |-> Nil]
         ELSE IF r.Revision > rev
         THEN [err |-> ErrWrongRev, ret |-> Nil]
         ELSE [err |-> errFinished,
               ret |-> <<IF st.Prefix = Nil /\ Len(BytesOf(stID)) = 0
                         THEN [st EXCEPT !.Prefix = <<<<>>>>]
                         ELSE st>>]

\* rows.Do that ignores errFinished and keeps scanning: the last qualifying
\* row wins.
RECURSIVE DoToTheEnd(_, _, _, _, _)
DoToTheEnd(rows, i, failAt, rev, stID) ==
    IF i = failAt
    THEN [err |-> ErrBackend, ret |-> Nil, idx |-> 0]
    ELSE IF i > Len(rows)
    THEN [err |-> NoErr, ret |-> Nil, idx |-> 0]
    ELSE LET cb == RowCallback(rows[i], rev, stID)
             rest == DoToTheEnd(rows, i + 1, failAt, rev, stID)
         IN  IF cb.err = errFinished
             THEN IF rest.err = NoErr /\ rest.ret = Nil
                  THEN [err |-> cb.err, ret |-> cb.ret, idx |-> i]
                  ELSE rest
             ELSE IF cb.err /= NoErr
             THEN [err |-> cb.err, ret |-> Nil, idx |-> 0]
             ELSE rest

\* rows.Do from row i on: the callback runs on each row in delivery order
\* until it returns an error; failAt is the position at which the iterator
\* itself (or the row's Columns decoding) fails, 0 when it does not.
\* idx is the position of the row left in ret (0 when none).
RECURSIVE Do(_, _, _, _, _)
Do(rows, i, failAt, rev, stID) ==
    IF i = failAt
    THEN [err |-> ErrBackend, ret |-> Nil, idx |-> 0]
    ELSE IF i > Len(rows)
    THEN [err |-> NoErr, ret |-> Nil, idx |-> 0]
    ELSE LET cb == RowCallback(rows[i], rev, stID) IN
         IF cb.err /= NoErr
         THEN [err |-> cb.err, ret |-> cb.ret,
               idx |-> IF cb.ret /= Nil THEN i ELSE 0]
         ELSE Do(rows, i + 1, failAt, rev, stID)

\* getSubtree that reports a missing subtree as ErrNotFound.
getSubtreeNotFound(scope, tbl, failAt, rev, id) ==
    LET k == subtreeKey(id) IN
    IF k.err /= NoErr
    THEN [p |-> Nil, e |-> k.err, idx |-> 0, read |-> FALSE, panic |-> FALSE]
    ELSE IF scope = "nil"
    THEN [p |-> Nil, e |-> NoErr, idx |-> 0, read |-> FALSE, panic |-> TRUE]
    ELSE LET d == Do(tbl[BytesOf(k.key)], 1, failAt, rev, k.key) IN
         [p |-> d.ret,
          e |-> IF d.err = errFinished THEN NoErr
                ELSE IF d.err = NoErr /\ d.ret = Nil THEN ErrNotFound
                ELSE d.err,
          idx |-> d.idx, read |-> TRUE, panic |-> FALSE]

\* getSubtree on the scope value scope ("nil" after Commit or Rollback) and
\* the table tbl: p and e are its results, idx the position of the returned
\* row, read whether a backend read was issued, panic whether the call
\* dereferenced a nil scope.
getSubtree(scope, tbl, failAt, rev, id) ==
    LET k == subtreeKey(id) IN
    IF k.err /= NoErr
    THEN [p |-> Nil, e |-> k.err, idx |-> 0, read |-> FALSE, panic |-> FALSE]
    ELSE IF scope = "nil"
    THEN [p |-> Nil, e |-> NoErr, idx |-> 0, read |-> FALSE, panic |-> TRUE]
    ELSE LET d == Do(tbl[BytesOf(k.key)], 1, failAt, rev, k.key) IN
         [p |-> d.ret,
          e |-> IF d.err = errFinished THEN NoErr ELSE d.err,
          idx |-> d.idx, read |-> TRUE, panic |-> FALSE]

(***************************************************************************)
(* The TreeHeads table and latestSTH.                                        *)
(***************************************************************************)
TreeHead(rev) == [TreeRevision |-> rev]

HeadRow(ts, rev, sigOK, metaOK) ==
    [TimestampNanos |-> ts, TreeRevision |-> rev, sig |-> sigOK, meta |-> metaOK]

\* latestSTH: the head with the newest timestamp; queryFails is a failure of
\* the query itself.
latestSTH(heads, queryFails) ==
    IF queryFails
    THEN [th |-> Nil, err |-> ErrBackend]
    ELSE IF heads = {}
    THEN [th |-> Nil, err |-> ErrTreeNeedsInit]
    ELSE LET r == CHOOSE h \in heads :
                      \A g \in heads : g.TimestampNanos <= h.TimestampNanos IN
         IF ~r.sig \/ ~r.meta
         THEN [th |-> Nil, err |-> ErrUnmarshal]
         ELSE [th |-> <<TreeHead(r.TreeRevision)>>, err |-> NoErr]

(***************************************************************************)
(* The state.                                                                *)
(***************************************************************************)
VARIABLES
    stx,                \* treeTX.stx: "rw", "ro" (the scope's dynamic type) or "nil"
    readers,            \* treeTX.mu: the callers that hold its read lock
    getLatestRootOnce,  \* treeTX.getLatestRootOnce: "new", "running", "done"
    _currentSTH,        \* treeTX._currentSTH (Nil or one TreeHead)
    _currentSTHErr,     \* treeTX._currentSTHErr
    _writeRev,          \* treeTX._writeRev
    cache,              \* treeTX.cache: subtree key -> cached subtree (Nil: not cached)
    dirty,              \* treeTX.cache: the keys of the subtrees to flush
    mutations,          \* the writes buffered in the read-write scope
    heads,              \* the TreeHeads table
    store,              \* the SubtreeData table
    call,               \* per caller: the call in progress and its locals
    leaked,             \* fetch goroutines still running after their handler returned
    crashed,            \* the process has panicked
    io,                 \* the collaborator calls the last step made
    ret,                \* the call that returned in the last step, and its results
    hist,               \* counts of what has happened to this transaction
    rd                  \* the arguments of a lone getSubtree call

vars == <<stx, readers, getLatestRootOnce, _currentSTH, _currentSTHErr, _writeRev,
          cache, dirty, mutations, heads, store, call, leaked, crashed, io, ret,
          hist, rd>>

txFields == <<stx, readers, getLatestRootOnce, _currentSTH, _currentSTHErr,
              _writeRev, cache, dirty, mutations>>

KeyRoot == <<>>
KeyA == <<1>>
Keys == {KeyRoot, KeyA}

\* The nodes the callers read and write: NodeX in the root subtree, NodeY in
\* the subtree with prefix KeyA.
NodeX == NodeID(<<0, 0>>, 8)
NodeY == NodeID(<<1, 1>>, 16)
TxNodes == {NodeX, NodeY}
Hashes == {"h1"}

\* The subtree cache's split of a node id: the id of the subtree that owns it
\* (strata of 8 levels).
subtreeIDOf(id) == NodeID(id.Path, 8 * ((id.PrefixLenBits - 1) \div 8))

keyOf(id) == BytesOf(subtreeKey(id).key)

Idle == [op |-> "idle", pc |-> "idle"]

NoRet == [op |-> "none", err |-> NoErr, val |-> <<>>, panic |-> FALSE]

Return(op, err, val) == [op |-> op, err |-> err, val |-> val, panic |-> FALSE]

Panic(op, err) == [op |-> op, err |-> err, val |-> <<>>, panic |-> TRUE]

ErrNilDeref == "invalid memory address or nil pointer dereference"

IsIdle(p) == ~crashed /\ call[p] = Idle

At(p, op, pc) == ~crashed /\ call[p].op = op /\ call[p].pc = pc

\* The history counters stay below MaxCount.
Bounded ==
    /\ hist.flushes < MaxCount
    /\ hist.okCloses < MaxCount
    /\ hist.latestSTHCalls < MaxCount

\* hist: how often cache.Flush ran (flushes), how many Commit and Rollback
\* calls returned something other than ErrTransactionClosed (okCloses), how
\* often latestSTH was called (latestSTHCalls), whether a Commit or Rollback
\* call has entered its critical section (closeCalled), whether a Rollback
\* found the transaction open (rolledBack), whether a flush returned an
\* error (flushFailed).
NoHist ==
    [flushes |-> 0, okCloses |-> 0, latestSTHCalls |-> 0, closeCalled |-> FALSE,
     rolledBack |-> FALSE, flushFailed |-> FALSE]

(***************************************************************************)
(* The tables a transaction starts on.                                       *)
(***************************************************************************)
StoredSubtree(key) == Marshal(SubtreeProto(<<key>>, "h0"))

\* Heads at revisions 1..n, each newer than the one before.
GoodHeads(n) == {HeadRow(r, r, TRUE, TRUE) : r \in 1..n}

\* No head yet; heads up to MaxHeadRev; a head whose signature or metadata
\* does not decode.
HeadTables ==
    {{}, GoodHeads(MaxHeadRev),
     {HeadRow(1, 1, FALSE, TRUE)}, {HeadRow(1, 1, TRUE, FALSE)}}

RECURSIVE Descending(_, _)
Descending(key, n) ==
    IF n = 0 THEN <<>> ELSE <<Row(n, StoredSubtree(key))>> \o Descending(key, n - 1)

\* The subtrees written up to head revision n: KeyA at every revision,
\* newest first; the root subtree was never written.
StoreFor(n) == [k \in Keys |-> IF k = KeyA THEN Descending(k, n) ELSE <<>>]

TxInit ==
    /\ stx \in {"rw", "ro"}
    /\ readers = {}
    /\ getLatestRootOnce = "new"
    /\ _currentSTH = Nil
    /\ _currentSTHErr = NoErr
    /\ _writeRev = 0
    /\ cache = [k \in Keys |-> Nil]
    /\ dirty = {}
    /\ mutations = <<>>
    /\ heads \in HeadTables
    /\ store = StoreFor(MaxHeadRev)
    /\ call = [p \in Procs |-> Idle]
    /\ leaked = 0
    /\ crashed = FALSE
    /\ io = {}
    /\ ret = NoRet
    /\ hist = NoHist
    /\ rd = Nil

Init == TxInit

(***************************************************************************)
(* Commit, Rollback, Close, IsOpen.  Commit and Rollback run under the       *)
(* write lock, so each is one step, enabled when no caller holds the read    *)
(* lock; IsOpen's read lock is free whenever no writer is inside.            *)
(***************************************************************************)
\* The closed check never fires.
neverClosed(scope) == FALSE

\* t.stx == nil, the open check of every operation.
isClosed(scope) == scope = "nil"

\* The scope is never cleared.
keepStx(scope, err) == scope

\* The scope is cleared only when the body succeeded.
keepStxOnError(scope, err) == IF err = NoErr THEN "nil" ELSE scope

\* t.stx after the deferred function of Commit and Rollback, which runs on
\* every return path, whatever error err the body returned.
clearStx(scope, err) == "nil"

Perms(S) ==
    {f \in [1..Cardinality(S) -> S] : \A i, j \in DOMAIN f : f[i] = f[j] => i = j}

\* The insert made at the head revision instead of the write revision.
InsertAtHead(subtreeID, rev, blob) ==
    [SubtreeID |-> subtreeID, Revision |-> rev - 1, Subtree |-> blob]

Insert(subtreeID, rev, blob) ==
    [SubtreeID |-> subtreeID, Revision |-> rev, Subtree |-> blob]

\* The loop of storeSubtrees from sts[i] on; failAt is the subtree at which
\* Marshal or BufferWrite fails, 0 when none does.
RECURSIVE storeLoop(_, _, _, _)
storeLoop(sts, i, rev, failAt) ==
    IF i > Len(sts)
    THEN [err |-> NoErr, muts |-> <<>>]
    ELSE IF sts[i] = Nil
    THEN storeLoop(sts, i + 1, rev, failAt)
    ELSE IF i = failAt
    THEN [err |-> ErrBackend, muts |-> <<>>]
    ELSE LET rest == storeLoop(sts, i + 1, rev, failAt) IN
         [err |-> rest.err,
          muts |-> <<Insert(BytesOf(sts[i][1].Prefix), rev, Marshal(sts[i][1]))>>
                       \o rest.muts]

storeSubtrees(scope, sts, rev, failAt) ==
    IF scope /= "rw"
    THEN [err |-> ErrWrongTXType, muts |-> <<>>]
    ELSE storeLoop(sts, 1, rev, failAt)

\* cache.Flush(t.storeSubtrees): the dirty subtrees, in the order given, go
\* to the writer in one call; with nothing dirty the writer is not called.
flushSubtrees(scope, order, failAt) ==
    IF Len(order) = 0
    THEN [err |-> NoErr, muts |-> <<>>, io |-> {"cache.Flush"}]
    ELSE LET w == storeSubtrees(scope, [i \in 1..Len(order) |-> cache[order[i]]],
                                _writeRev, failAt) IN
         [err |-> w.err, muts |-> w.muts,
          io |-> {"cache.Flush"} \cup (IF w.muts /= <<>> THEN {"BufferWrite"} ELSE {})]

\* A Commit body without the switch on the scope's type: it always flushes.
commitBodyFlushAll(scope, order, failAt) ==
    IF isClosed(scope)
    THEN [err |-> ErrTransactionClosed, muts |-> <<>>, io |-> {}]
    ELSE flushSubtrees(scope, order, failAt)

\* The body of Commit between taking the lock and the deferred clearing.
commitBody(scope, order, failAt) ==
    IF isClosed(scope)
    THEN [err |-> ErrTransactionClosed, muts |-> <<>>, io |-> {}]
    ELSE CASE scope = "ro" -> [err |-> NoErr, muts |-> <<>>, io |-> {"stx.Close"}]
           [] scope = "rw" -> flushSubtrees(scope, order, failAt)
           [] OTHER -> [err |-> ErrUnknownTXType, muts |-> <<>>, io |-> {}]

Commit(p) ==
    /\ IsIdle(p)
    /\ Bounded
    /\ readers = {}
    /\ \E order \in Perms(dirty), failAt \in 0..Cardinality(dirty) :
          LET r == commitBody(stx, order, failAt) IN
          /\ mutations' = mutations \o r.muts
          /\ io' = r.io
          /\ ret' = Return("Commit", r.err, <<>>)
          /\ hist' = [hist EXCEPT
                        !.flushes = @ + (IF "cache.Flush" \in r.io THEN 1 ELSE 0),
                        !.okCloses = @ + (IF r.err /= ErrTransactionClosed THEN 1 ELSE 0),
                        !.flushFailed = @ \/ ("cache.Flush" \in r.io /\ r.err /= NoErr),
                        !.closeCalled = TRUE]
          /\ stx' = clearStx(stx, r.err)
    /\ UNCHANGED <<readers, getLatestRootOnce, _currentSTH, _currentSTHErr, _writeRev,
                   cache, dirty, heads, store, call, leaked, crashed, rd>>

\* The body of Rollback between taking the lock and the deferred clearing.
rollbackBody(scope) == IF isClosed(scope) THEN ErrTransactionClosed ELSE NoErr

\* A Rollback that flushes the cache of an open transaction before closing.
DoRollbackFlushing ==
    /\ Bounded
    /\ readers = {}
    /\ stx' = clearStx(stx, rollbackBody(stx))
    /\ hist' = [hist EXCEPT
                  !.okCloses = @ + (IF rollbackBody(stx) /= ErrTransactionClosed
                                    THEN 1 ELSE 0),
                  !.rolledBack = @ \/ rollbackBody(stx) = NoErr,
                  !.closeCalled = TRUE]
    /\ LET f == commitBody(stx, CHOOSE o \in Perms(dirty) : TRUE, 0) IN
       /\ io' = f.io
       /\ mutations' = mutations \o f.muts
    /\ UNCHANGED <<readers, getLatestRootOnce, _currentSTH, _currentSTHErr, _writeRev,
                   cache, dirty, heads, store, leaked, crashed, rd>>

\* What a Rollback call does to the transaction, whoever makes it.
DoRollback ==
    /\ Bounded
    /\ readers = {}
    /\ stx' = clearStx(stx, rollbackBody(stx))
    /\ hist' = [hist EXCEPT
                  !.okCloses = @ + (IF rollbackBody(stx) /= ErrTransactionClosed
                                    THEN 1 ELSE 0),
                  !.rolledBack = @ \/ rollbackBody(stx) = NoErr,
                  !.closeCalled = TRUE]
    /\ io' = {}
    /\ UNCHANGED <<readers, getLatestRootOnce, _currentSTH, _currentSTHErr, _writeRev,
                   cache, dirty, mutations, heads, store, leaked, crashed, rd>>

Rollback(p) ==
    /\ IsIdle(p)
    /\ DoRollback
    /\ ret' = Return("Rollback", rollbackBody(stx), <<>>)
    /\ UNCHANGED call

\* IsOpen that does not look at the scope.
alwaysOpen(scope) == TRUE

\* IsOpen, under the read lock.
isOpen(scope) == scope /= "nil"

IsOpen(p) ==
    /\ IsIdle(p)
    /\ io' = {}
    /\ ret' = Return("IsOpen", NoErr, <<isOpen(stx)>>)
    /\ UNCHANGED <<txFields, heads, store, call, leaked, crashed, hist, rd>>

\* Close, first half: the IsOpen check; a closed transaction returns at once.
CloseIsOpen(p) ==
    /\ IsIdle(p)
    /\ io' = {}
    /\ IF isOpen(stx)
       THEN /\ call' = [call EXCEPT ![p] = [op |-> "Close", pc |-> "Rollback"]]
            /\ ret' = NoRet
       ELSE /\ call' = call
            /\ ret' = Return("Close", NoErr, <<>>)
    /\ UNCHANGED <<txFields, heads, store, leaked, crashed, hist, rd>>

\* Close that returns whatever error its Rollback returned.
closeErrAny(err) == err

\* The error Close returns for the error of its Rollback.
closeErr(err) == IF err /= NoErr /\ err /= ErrTransactionClosed THEN err ELSE NoErr

\* Close, second half: the Rollback, whose ErrTransactionClosed is dropped.
CloseRollback(p) ==
    /\ At(p, "Close", "Rollback")
    /\ DoRollback
    /\ ret' = Return("Close", closeErr(rollbackBody(stx)), <<>>)
    /\ call' = [call EXCEPT ![p] = Idle]

\* The backend's commit of a read-write transaction applies its buffered
\* mutations: each insert becomes a row of its subtree key, and a prefix read
\* delivers the rows of a key newest first.
InsertRow(rows, m) ==
    LET Newer(r) == r.Revision > m.Revision
        Older(r) == r.Revision < m.Revision
    IN  SelectSeq(rows, Newer) \o <<Row(m.Revision, m.Subtree)>> \o SelectSeq(rows, Older)

RECURSIVE ApplyMutations(_, _)
ApplyMutations(tbl, muts) ==
    IF muts = <<>> THEN tbl
    ELSE LET m == Head(muts) IN
         ApplyMutations([tbl EXCEPT ![m.SubtreeID] = InsertRow(@, m)], Tail(muts))

(***************************************************************************)
(* Revision resolution: getLatestRoot under sync.Once, and its callers.      *)
(***************************************************************************)
\* The write revision without the increment.
sameRev(th) == th.TreeRevision

\* The write revision getLatestRoot derives from the head it read.
nextRev(th) == th.TreeRevision + 1

\* currentSTH() and writeRev() once getLatestRoot has returned.
currentSTH ==
    IF _currentSTHErr /= NoErr
    THEN [sth |-> Nil, err |-> _currentSTHErr]
    ELSE [sth |-> _currentSTH, err |-> NoErr]

\* writeRev() that returns the memoized field whatever the resolution's error.
writeRevUnchecked == [rev |-> _writeRev, err |-> NoErr]

writeRev ==
    IF _currentSTHErr /= NoErr
    THEN [rev |-> -1, err |-> _currentSTHErr]
    ELSE [rev |-> _writeRev, err |-> NoErr]

\* A Once that runs its function for every caller that finds it idle.
onceRunsAgain(state) == state /= "running"

\* Whether this caller runs the function of getLatestRootOnce.Do.
onceRuns(state) == state = "new"

\* getLatestRoot as caller p enters it for its operation op.  The first
\* caller of getLatestRootOnce.Do runs the function: latestSTH issues its
\* query on t.stx, and on a nil scope the call panics.  A caller that finds
\* the function running waits, one that finds it done goes on.
GetLatestRootCall(p, op) ==
    /\ Bounded
    /\ IF onceRuns(getLatestRootOnce)
       THEN /\ getLatestRootOnce' = "running"
            /\ hist' = [hist EXCEPT !.latestSTHCalls = @ + 1]
            /\ IF stx = "nil"
               THEN /\ crashed' = TRUE
                    /\ ret' = Panic(op, ErrNilDeref)
                    /\ io' = {}
                    /\ call' = call
               ELSE /\ crashed' = crashed
                    /\ ret' = NoRet
                    /\ io' = {"Query"}
                    /\ call' = [call EXCEPT ![p] = [op |-> op, pc |-> "latestSTH"]]
       ELSE /\ call' = [call EXCEPT ![p] =
                          [op |-> op,
                           pc |-> IF getLatestRootOnce = "done" THEN "return"
                                  ELSE "getLatestRoot"]]
            /\ io' = {}
            /\ ret' = NoRet
            /\ UNCHANGED <<getLatestRootOnce, hist, crashed>>

\* The query returns and the function of Do stores what it found.
LatestSTHReturn(p) ==
    /\ ~crashed
    /\ call[p].pc = "latestSTH"
    /\ \E queryFails \in BOOLEAN :
          LET r == latestSTH(heads, queryFails) IN
          /\ _currentSTH' = r.th
          /\ _currentSTHErr' = r.err
          /\ _writeRev' = IF r.th /= Nil THEN nextRev(r.th[1]) ELSE _writeRev
    /\ getLatestRootOnce' = "done"
    /\ call' = [call EXCEPT ![p].pc = "return"]
    /\ io' = {}
    /\ ret' = NoRet
    /\ UNCHANGED <<stx, readers, cache, dirty, mutations, heads, store, leaked,
                   crashed, hist, rd>>

\* getLatestRootOnce.Do, any later caller: returns once the function is done.
GetLatestRootDone(p) ==
    /\ ~crashed
    /\ call[p].pc = "getLatestRoot"
    /\ getLatestRootOnce = "done"
    /\ call' = [call EXCEPT ![p].pc = "return"]
    /\ io' = {}
    /\ ret' = NoRet
    /\ UNCHANGED <<txFields, heads, store, leaked, crashed, hist, rd>>

\* ReadRevision and WriteRevision take no lock and make no open check.
ReadRevision(p) ==
    /\ IsIdle(p)
    /\ GetLatestRootCall(p, "ReadRevision")
    /\ UNCHANGED <<stx, readers, _currentSTH, _currentSTHErr, _writeRev, cache, dirty,
                   mutations, heads, store, leaked, rd>>

WriteRevision(p) ==
    /\ IsIdle(p)
    /\ GetLatestRootCall(p, "WriteRevision")
    /\ UNCHANGED <<stx, readers, _currentSTH, _currentSTHErr, _writeRev, cache, dirty,
                   mutations, heads, store, leaked, rd>>

\* What ReadRevision does with the result of currentSTH().
readRevisionResult(r) ==
    IF r.err /= NoErr THEN Panic("ReadRevision", r.err)
    ELSE IF r.sth = Nil THEN Panic("ReadRevision", ErrNilDeref)
    ELSE Return("ReadRevision", NoErr, <<r.sth[1].TreeRevision>>)

\* WriteRevision that drops the error and returns the revision it got.
writeRevisionDefault(r) == Return("WriteRevision", NoErr, <<r.rev>>)

\* What WriteRevision does with the result of writeRev().
writeRevisionResult(r) ==
    IF r.err /= NoErr THEN Panic("WriteRevision", r.err)
    ELSE Return("WriteRevision", NoErr, <<r.rev>>)

ReadRevisionReturn(p) ==
    /\ At(p, "ReadRevision", "return")
    /\ ret' = readRevisionResult(currentSTH)
    /\ crashed' = ret'.panic
    /\ call' = [call EXCEPT ![p] = Idle]
    /\ io' = {}
    /\ UNCHANGED <<txFields, heads, store, leaked, hist, rd>>

WriteRevisionReturn(p) ==
    /\ At(p, "WriteRevision", "return")
    /\ ret' = writeRevisionResult(writeRev)
    /\ crashed' = ret'.panic
    /\ call' = [call EXCEPT ![p] = Idle]
    /\ io' = {}
    /\ UNCHANGED <<txFields, heads, store, leaked, hist, rd>>

(***************************************************************************)
(* SetMerkleNodes.                                                           *)
(***************************************************************************)
Node(id, hash) == [NodeID |-> id, Hash |-> hash]

\* The node lists the callers pass (the list is first read after writeRev
\* has returned).
MaxNodes == Cardinality(TxNodes)

NodeLists ==
    {<<Node(NodeX, h)>> : h \in Hashes}
        \cup {<<Node(NodeY, h)>> : h \in Hashes}
        \cup {<<Node(NodeX, h), Node(NodeY, h)>> : h \in Hashes}

EmptySubtree(key) == SubtreeProto(<<key>>, "")

\* A loader that reads at the write revision itself.
loaderRevInProgress(rev) == rev

\* The revision SetMerkleNodes' loader reads at, for write revision rev.
loaderRev(rev) == rev - 1

\* The loop of SetMerkleNodes from nodes[i] on, over cache c with dirty keys
\* d.  cache.SetNodeHash loads the owning subtree with the loader when it is
\* not cached (an empty one when the loader finds none), sets the hash and
\* marks the subtree dirty.  failNode is the node whose load fails in the
\* backend, 0 when none does.  loads are the loader's reads that succeeded:
\* the key, the revision read at and the position of the row taken (0 when
\* there was none).
RECURSIVE setNodes(_, _, _, _, _, _, _)
setNodes(c, d, nodes, i, failNode, rev, scope) ==
    IF i > Len(nodes)
    THEN [cache |-> c, dirty |-> d, err |-> NoErr, read |-> FALSE, panic |-> FALSE,
          loads |-> {}]
    ELSE LET sid == subtreeIDOf(nodes[i].NodeID)
             k == keyOf(sid)
             g == getSubtree(scope, store, IF i = failNode THEN 1 ELSE 0,
                             loaderRev(rev), sid)
             st == IF c[k] /= Nil THEN c[k][1]
                   ELSE IF g.p = Nil THEN EmptySubtree(k) ELSE g.p[1]
             rest == setNodes([c EXCEPT ![k] = <<[st EXCEPT !.Leaves = nodes[i].Hash]>>],
                              d \cup {k}, nodes, i + 1, failNode, rev, scope)
         IN  IF c[k] /= Nil THEN rest
             ELSE IF g.panic \/ g.e /= NoErr
             THEN [cache |-> c, dirty |-> d, err |-> g.e, read |-> g.read,
                   panic |-> g.panic, loads |-> {}]
             ELSE [rest EXCEPT
                      !.read = TRUE,
                      !.loads = @ \cup {[key |-> k, rev |-> loaderRev(rev), idx |-> g.idx]}]

\* SetMerkleNodes up to its call of writeRev: the read lock, the open check
\* and the entry into getLatestRoot.
SetMerkleNodes(p) ==
    /\ IsIdle(p)
    /\ IF isClosed(stx)
       THEN /\ ret' = Return("SetMerkleNodes", ErrTransactionClosed, <<>>)
            /\ io' = {}
            /\ UNCHANGED <<call, readers, getLatestRootOnce, hist, crashed>>
       ELSE /\ GetLatestRootCall(p, "SetMerkleNodes")
            /\ readers' = readers \cup {p}
    /\ UNCHANGED <<stx, _currentSTH, _currentSTHErr, _writeRev, cache, dirty,
                   mutations, heads, store, leaked, rd>>

\* SetMerkleNodes that writes each subtree it touched through to the backend.
SetMerkleNodesWriteThrough(p) ==
    /\ At(p, "SetMerkleNodes", "return")
    /\ \E nodes \in NodeLists, failNode \in 0..MaxNodes :
          LET w == writeRev
              r == IF w.err /= NoErr
                   THEN [cache |-> cache, dirty |-> dirty, err |-> w.err,
                         read |-> FALSE, panic |-> FALSE, loads |-> {}]
                   ELSE setNodes(cache, dirty, nodes, 1, failNode, w.rev, stx)
              touched == CHOOSE f \in Perms(r.dirty \ dirty) : TRUE
          IN  /\ cache' = r.cache
              /\ dirty' = r.dirty
              /\ mutations' = mutations \o
                     storeSubtrees(stx, [i \in 1..Len(touched) |-> r.cache[touched[i]]],
                                   w.rev, 0).muts
              /\ io' = (IF w.err = NoErr THEN {"cache.SetNodeHash"} ELSE {})
                           \cup (IF r.read THEN {"Read"} ELSE {})
              /\ ret' = IF r.panic THEN Panic("SetMerkleNodes", ErrNilDeref)
                        ELSE Return("SetMerkleNodes", r.err, <<>>)
              /\ crashed' = r.panic
    /\ readers' = readers \ {p}
    /\ call' = [call EXCEPT ![p] = Idle]
    /\ UNCHANGED <<stx, getLatestRootOnce, _currentSTH, _currentSTHErr, _writeRev,
                   heads, store, leaked, hist, rd>>

\* SetMerkleNodes from the return of writeRev to its own return.
SetMerkleNodesReturn(p) ==
    /\ At(p, "SetMerkleNodes", "return")
    /\ \E nodes \in NodeLists, failNode \in 0..MaxNodes :
          LET w == writeRev
              r == IF w.err /= NoErr
                   THEN [cache |-> cache, dirty |-> dirty, err |-> w.err,
                         read |-> FALSE, panic |-> FALSE, loads |-> {}]
                   ELSE setNodes(cache, dirty, nodes, 1, failNode, w.rev, stx)
          IN  /\ cache' = r.cache
              /\ dirty' = r.dirty
              /\ io' = (IF w.err = NoErr THEN {"cache.SetNodeHash"} ELSE {})
                           \cup (IF r.read THEN {"Read"} ELSE {})
              /\ ret' = IF r.panic THEN Panic("SetMerkleNodes", ErrNilDeref)
                        ELSE Return("SetMerkleNodes", r.err, <<>>)
              /\ crashed' = r.panic
    /\ readers' = readers \ {p}
    /\ call' = [call EXCEPT ![p] = Idle]
    /\ UNCHANGED <<stx, getLatestRootOnce, _currentSTH, _currentSTHErr, _writeRev,
                   mutations, heads, store, leaked, hist, rd>>

(***************************************************************************)
(* GetMerkleNodes.  cache.GetNodes calls the miss handler with the ids of   *)
(* the subtrees it does not hold; the handler starts one goroutine for each  *)
(* and collects their messages from the channels c and errc.                 *)
(***************************************************************************)
\* The ids of the subtrees cache.GetNodes asks the handler for.
wanted(ids) == {subtreeIDOf(id) : id \in {n \in ids : cache[keyOf(subtreeIDOf(n))] = Nil}}

\* The cache after it merged the subtrees the handler returned: a subtree it
\* asked for and did not get is an empty one, and a subtree that was cached
\* in the meantime (by a concurrent call) stays as it is.
merged(want, got) ==
    [k \in Keys |->
        IF cache[k] /= Nil
        THEN cache[k]
        ELSE IF \E i \in 1..Len(got) : BytesOf(got[i].Prefix) = k
        THEN <<got[CHOOSE i \in 1..Len(got) : BytesOf(got[i].Prefix) = k]>>
        ELSE IF k \in {keyOf(w) : w \in want}
        THEN <<EmptySubtree(k)>>
        ELSE cache[k]]

\* The nodes cache.GetNodes returns from cache c: the requested nodes that
\* have a hash.
nodesOf(c, ids) ==
    {Node(id, c[keyOf(subtreeIDOf(id))][1].Leaves) :
        id \in {n \in ids : c[keyOf(subtreeIDOf(n))][1].Leaves /= ""}}

\* The revisions the callers read at.
GetRevs == {MaxHeadRev}

\* GetMerkleNodes up to the handler's spawning of the fetches: the read lock,
\* the open check and the cache's lookup.
GetNodesCall(p, idSets, revs) ==
    /\ IsIdle(p)
    /\ \E rev \in revs, ids \in idSets :
          IF isClosed(stx)
          THEN /\ ret' = Return("GetMerkleNodes", ErrTransactionClosed, <<>>)
               /\ io' = {}
               /\ UNCHANGED <<call, readers>>
          ELSE IF wanted(ids) = {}
          THEN /\ ret' = Return("GetMerkleNodes", NoErr, <<nodesOf(cache, ids)>>)
               /\ io' = {"cache.GetNodes"}
               /\ UNCHANGED <<call, readers>>
          ELSE /\ leaked + Cardinality(wanted(ids)) - 1 <= MaxLeaked
               /\ call' = [call EXCEPT ![p] =
                             [op |-> "GetMerkleNodes", pc |-> "select", rev |-> rev,
                              ids |-> ids, want |-> wanted(ids),
                              running |-> wanted(ids),
                              c |-> <<>>, errc |-> <<>>, got |-> <<>>, n |-> 0]]
               /\ readers' = readers \cup {p}
               /\ ret' = NoRet
               /\ io' = {"cache.GetNodes"}
    /\ UNCHANGED <<stx, getLatestRootOnce, _currentSTH, _currentSTHErr, _writeRev,
                   cache, dirty, mutations, heads, store, leaked, crashed, hist, rd>>

\* GetMerkleNodes for one node.
GetMerkleNodes(p) == GetNodesCall(p, {{n} : n \in TxNodes}, GetRevs)

\* GetMerkleNodes for several nodes, at the head revision or at revision 0,
\* which is older than every stored row.
FetchRevs == {0, MaxHeadRev}

GetMerkleNodesBatch(p) == GetNodesCall(p, {TxNodes}, FetchRevs)

\* The capacity of the channels c and errc the handler makes for ids.
chanCap(ids) == Cardinality(ids)

\* A goroutine that goes on to send on c after it sent its error on errc.
FetchNoReturn(p) ==
    /\ At(p, "GetMerkleNodes", "select")
    /\ \E id \in call[p].running, failAt \in 0..1 :
          LET g == getSubtree(stx, store, failAt, call[p].rev, id) IN
          /\ crashed' = g.panic
          /\ ret' = IF g.panic THEN Panic("getSubtree", ErrNilDeref) ELSE NoRet
          /\ io' = IF g.read THEN {"Read"} ELSE {}
          /\ call' = [call EXCEPT
                        ![p].running = @ \ {id},
                        ![p].errc = IF ~g.panic /\ g.e /= NoErr THEN Append(@, g.e) ELSE @,
                        ![p].c = IF ~g.panic THEN Append(@, g.p) ELSE @]
    /\ UNCHANGED <<txFields, heads, store, leaked, hist, rd>>

\* One spawned goroutine: getSubtree, then one send on errc or on c; a send
\* waits while its channel is full.
Fetch(p) ==
    /\ At(p, "GetMerkleNodes", "select")
    /\ \E id \in call[p].running, failAt \in 0..1 :
          LET g == getSubtree(stx, store, failAt, call[p].rev, id) IN
          /\ g.panic \/ Len(IF g.e /= NoErr THEN call[p].errc ELSE call[p].c)
                            < chanCap(call[p].want)
          /\ crashed' = g.panic
          /\ ret' = IF g.panic THEN Panic("getSubtree", ErrNilDeref) ELSE NoRet
          /\ io' = (IF g.read THEN {"Read"} ELSE {})
                       \cup (IF g.panic THEN {} ELSE {"chan.send"})
          /\ call' = [call EXCEPT
                        ![p].running = @ \ {id},
                        ![p].errc = IF ~g.panic /\ g.e /= NoErr THEN Append(@, g.e) ELSE @,
                        ![p].c = IF ~g.panic /\ g.e = NoErr THEN Append(@, g.p) ELSE @]
    /\ UNCHANGED <<txFields, heads, store, leaked, hist, rd>>

\* The select takes an error from errc: the handler returns it at once, and
\* the goroutines still running are left behind.
SelectErr(p) ==
    /\ At(p, "GetMerkleNodes", "select")
    /\ call[p].errc /= <<>>
    /\ ret' = Return("GetMerkleNodes", Head(call[p].errc), <<>>)
    /\ leaked' = leaked + Cardinality(call[p].running)
    /\ readers' = readers \ {p}
    /\ call' = [call EXCEPT ![p] = Idle]
    /\ io' = {}
    /\ UNCHANGED <<stx, getLatestRootOnce, _currentSTH, _currentSTHErr, _writeRev,
                   cache, dirty, mutations, heads, store, crashed, hist, rd>>

\* The select takes a subtree from c; after one message per id the handler
\* returns the subtrees it got, the cache merges them and GetNodes returns.
SelectSubtree(p) ==
    /\ At(p, "GetMerkleNodes", "select")
    /\ call[p].c /= <<>>
    /\ LET st == Head(call[p].c)
           got == IF st /= Nil THEN Append(call[p].got, st[1]) ELSE call[p].got
       IN  IF call[p].n + 1 < Cardinality(call[p].want)
           THEN /\ call' = [call EXCEPT ![p].c = Tail(@), ![p].got = got, ![p].n = @ + 1]
                /\ ret' = NoRet
                /\ UNCHANGED <<cache, readers>>
           ELSE /\ cache' = merged(call[p].want, got)
                /\ ret' = Return("GetMerkleNodes", NoErr, <<nodesOf(cache', call[p].ids)>>)
                /\ readers' = readers \ {p}
                /\ call' = [call EXCEPT ![p] = Idle]
    /\ io' = {}
    /\ UNCHANGED <<stx, getLatestRootOnce, _currentSTH, _currentSTHErr, _writeRev,
                   dirty, mutations, heads, store, leaked, crashed, hist, rd>>

\* A goroutine left behind by a handler that returned early runs getSubtree
\* on whatever it reads in t.stx by then, and nobody receives what it sends.
\* It reads t.stx without the lock: once Commit or Rollback has cleared the
\* field the read yields nil, and the call panics, or it yields the scope
\* that was there before (stale), and the backend read goes to that scope.
LeakedFetch ==
    /\ ~crashed
    /\ leaked > 0
    /\ leaked' = leaked - 1
    /\ \E stale \in BOOLEAN :
          LET seesNil == stx = "nil" /\ ~stale IN
          /\ crashed' = seesNil
          /\ ret' = IF seesNil THEN Panic("getSubtree", ErrNilDeref) ELSE NoRet
          /\ io' = IF seesNil THEN {} ELSE {"Read", "chan.send"}
    /\ UNCHANGED <<txFields, heads, store, call, hist, rd>>

(***************************************************************************)
(* A lone getSubtree call, on any rows in any delivery order.               *)
(***************************************************************************)
ReadIDs == {NodeID(<<1>>, 0), NodeID(<<1>>, 8), NodeID(<<1>>, 4)}

\* The blobs a row of key may hold: a subtree of that key, a subtree of
\* another key, a blob that does not decode.
Blobs(key) ==
    {StoredSubtree(key), StoredSubtree(IF key = KeyA THEN <<0>> ELSE KeyA), Garbage}

\* The rows of one key, in every delivery order: no two of the same revision
\* (the revision is part of the row's primary key).
RowSeqs(key) ==
    {rows \in UNION {[1..n -> {Row(r, b) : r \in Revs, b \in Blobs(key)}] :
                        n \in 0..MaxRows} :
        \A i, j \in DOMAIN rows : rows[i].Revision = rows[j].Revision => i = j}

rdKey == IF subtreeKey(rd[1].id).err = NoErr THEN keyOf(rd[1].id) ELSE KeyRoot

rdRows == store[rdKey]

ReadInit ==
    /\ stx \in {"rw", "ro"}
    /\ readers = {}
    /\ getLatestRootOnce = "new"
    /\ _currentSTH = Nil
    /\ _currentSTHErr = NoErr
    /\ _writeRev = 0
    /\ cache = [k \in Keys |-> Nil]
    /\ dirty = {}
    /\ mutations = <<>>
    /\ heads = {}
    /\ \E id \in ReadIDs, rev \in Revs :
          /\ rd = <<[id |-> id, rev |-> rev, failAt |-> 0, out |-> Nil]>>
          /\ \E rows \in RowSeqs(rdKey) :
                store = [k \in Keys |-> IF k = rdKey THEN rows ELSE <<>>]
    /\ call = [p \in Procs |-> Idle]
    /\ leaked = 0
    /\ crashed = FALSE
    /\ io = {}
    /\ ret = NoRet
    /\ hist = NoHist

\* The call: failAt is where the read fails in the backend, 0 when it does not.
GetSubtree ==
    /\ rd[1].out = Nil
    /\ \E failAt \in 0..(Len(rdRows) + 1) :
          LET g == getSubtree(stx, store, failAt, rd[1].rev, rd[1].id) IN
          /\ rd' = <<[rd[1] EXCEPT !.failAt = failAt, !.out = <<g>>]>>
          /\ io' = IF g.read THEN {"Read"} ELSE {}
    /\ UNCHANGED <<txFields, heads, store, call, leaked, crashed, ret, hist>>

ReadNext == GetSubtree

SpecRead == ReadInit /\ [][ReadNext]_vars

(***************************************************************************)
(* subtreeKey and getSubtree on any two node ids: paths of up to MaxPathLen  *)
(* bytes, and every prefix length within the path, byte-aligned or not.      *)
(***************************************************************************)
PathBytes == {0, 1}

KeyPaths == UNION {[1..n -> PathBytes] : n \in 0..MaxPathLen}

\* The node ids: a prefix length counts leading bits of the path, here in
\* steps of half a byte.
KeyIDs ==
    {id \in {NodeID(path, bits) : path \in KeyPaths, bits \in 0..(8 * MaxPathLen)} :
        id.PrefixLenBits <= 8 * Len(id.Path) /\ id.PrefixLenBits % 4 = 0}

KeyInit ==
    /\ stx \in {"rw", "ro"}
    /\ readers = {}
    /\ getLatestRootOnce = "new"
    /\ _currentSTH = Nil
    /\ _currentSTHErr = NoErr
    /\ _writeRev = 0
    /\ cache = [k \in Keys |-> Nil]
    /\ dirty = {}
    /\ mutations = <<>>
    /\ heads = {}
    /\ store = [k \in KeyPaths |-> Descending(k, MaxHeadRev)]
    /\ \E id1, id2 \in KeyIDs :
          rd = <<[id |-> id1, rev |-> MaxHeadRev, key |-> Nil, out |-> Nil],
                 [id |-> id2, rev |-> MaxHeadRev, key |-> Nil, out |-> Nil]>>
    /\ call = [p \in Procs |-> Idle]
    /\ leaked = 0
    /\ crashed = FALSE
    /\ io = {}
    /\ ret = NoRet
    /\ hist = NoHist

\* getSubtree on the i-th id; key is what its call of subtreeKey returned.
GetSubtreeOf(i) ==
    /\ rd[i].out = Nil
    /\ \E failAt \in 0..1 :
          LET g == getSubtree(stx, store, failAt, rd[i].rev, rd[i].id) IN
          /\ rd' = [rd EXCEPT ![i].key = <<subtreeKey(rd[i].id)>>, ![i].out = <<g>>]
          /\ io' = IF g.read THEN {"Read"} ELSE {}
    /\ UNCHANGED <<txFields, heads, store, call, leaked, crashed, ret, hist>>

KeyNext == \E i \in 1..2 : GetSubtreeOf(i)

SpecKey == KeyInit /\ [][KeyNext]_vars

(***************************************************************************)
(* SetMerkleNodes on a table that also holds rows of later revisions than   *)
(* the head the transaction resolves (rows of the write revision and        *)
(* beyond): KeyA is stored at every revision up to n, for every n.           *)
(***************************************************************************)
SetInit ==
    /\ stx \in {"rw", "ro"}
    /\ readers = {}
    /\ getLatestRootOnce = "new"
    /\ _currentSTH = Nil
    /\ _currentSTHErr = NoErr
    /\ _writeRev = 0
    /\ cache = [k \in Keys |-> Nil]
    /\ dirty = {}
    /\ mutations = <<>>
    /\ heads \in {GoodHeads(n) : n \in 0..MaxHeadRev}
    /\ store \in {StoreFor(n) : n \in 0..MaxRev}
    /\ call = [p \in Procs |-> Idle]
    /\ leaked = 0
    /\ crashed = FALSE
    /\ io = {}
    /\ ret = NoRet
    /\ hist = NoHist
    /\ rd = Nil

SetNext ==
    \E p \in Procs :
        \/ SetMerkleNodes(p)
        \/ LatestSTHReturn(p)
        \/ GetLatestRootDone(p)
        \/ SetMerkleNodesReturn(p)
        \/ Commit(p)
        \/ Rollback(p)

SpecSet == SetInit /\ [][SetNext]_vars

(***************************************************************************)
(* snapshotTX: Commit and Rollback call Close, which takes the write lock,   *)
(* so a call is two steps: the entry, and Close's critical section.  stx is  *)
(* here the stx field of the snapshotTX, a read-only scope.                  *)
(***************************************************************************)
SnapshotOps == {"snapshotTX.Commit", "snapshotTX.Rollback", "snapshotTX.Close"}

\* The callers of one snapshot transaction: enough for a Commit, a Rollback
\* and a Close to be in progress together.
SnapshotProcs == 1..(NumCallers + 1)

SnapshotInit ==
    /\ stx = "ro"
    /\ readers = {}
    /\ getLatestRootOnce = "new"
    /\ _currentSTH = Nil
    /\ _currentSTHErr = NoErr
    /\ _writeRev = 0
    /\ cache = [k \in Keys |-> Nil]
    /\ dirty = {}
    /\ mutations = <<>>
    /\ heads = {}
    /\ store = StoreFor(MaxHeadRev)
    /\ call = [p \in SnapshotProcs |-> Idle]
    /\ leaked = 0
    /\ crashed = FALSE
    /\ io = {}
    /\ ret = NoRet
    /\ hist = NoHist
    /\ rd = Nil

\* A caller enters Commit, Rollback or Close and waits for the lock.
SnapshotCall(p, op) ==
    /\ IsIdle(p)
    /\ call' = [call EXCEPT ![p] = [op |-> op, pc |-> "Lock"]]
    /\ ret' = NoRet
    /\ io' = {}
    /\ UNCHANGED <<txFields, heads, store, leaked, crashed, hist, rd>>

SnapshotCommit(p) == SnapshotCall(p, "snapshotTX.Commit")

SnapshotRollback(p) == SnapshotCall(p, "snapshotTX.Rollback")

SnapshotCloseCall(p) == SnapshotCall(p, "snapshotTX.Close")

\* A Close that returns nil on a closed transaction, as treeTX.Close does.
snapshotCloseIdempotent(scope) ==
    [err |-> NoErr, io |-> IF scope = "ro" THEN {"stx.Close"} ELSE {}, stx |-> "nil"]

\* The critical section of snapshotTX.Close on the scope value scope.
snapshotClose(scope) ==
    IF scope = "nil"
    THEN [err |-> ErrTransactionClosed, io |-> {}, stx |-> scope]
    ELSE [err |-> NoErr, io |-> IF scope = "ro" THEN {"stx.Close"} ELSE {},
          stx |-> "nil"]

SnapshotClose(p) ==
    /\ ~crashed
    /\ call[p].op \in SnapshotOps
    /\ call[p].pc = "Lock"
    /\ LET r == snapshotClose(stx) IN
       /\ stx' = r.stx
       /\ io' = r.io
       /\ ret' = Return(call[p].op, r.err, <<>>)
       /\ hist' = [hist EXCEPT !.okCloses = @ + (IF r.err = NoErr THEN 1 ELSE 0),
                               !.closeCalled = TRUE]
    /\ call' = [call EXCEPT ![p] = Idle]
    /\ UNCHANGED <<readers, getLatestRootOnce, _currentSTH, _currentSTHErr, _writeRev,
                   cache, dirty, mutations, heads, store, leaked, crashed, rd>>

SnapshotNext ==
    \E p \in SnapshotProcs :
        \/ SnapshotCommit(p)
        \/ SnapshotRollback(p)
        \/ SnapshotCloseCall(p)
        \/ SnapshotClose(p)

SpecSnapshot == SnapshotInit /\ [][SnapshotNext]_vars

Next ==
    \E p \in Procs :
        \/ Commit(p)
        \/ Rollback(p)
        \/ IsOpen(p)
        \/ CloseIsOpen(p)
        \/ CloseRollback(p)
        \/ ReadRevision(p)
        \/ WriteRevision(p)
        \/ LatestSTHReturn(p)
        \/ GetLatestRootDone(p)
        \/ ReadRevisionReturn(p)
        \/ WriteRevisionReturn(p)
        \/ SetMerkleNodes(p)
        \/ SetMerkleNodesReturn(p)
        \/ GetMerkleNodes(p)
        \/ Fetch(p)
        \/ SelectErr(p)
        \/ SelectSubtree(p)

Spec == Init /\ [][Next]_vars

\* GetMerkleNodes for several nodes at once, with the goroutines an early
\* return leaves behind, next to Commit, Rollback and IsOpen.
FetchNext ==
    \/ \E p \in Procs :
          \/ GetMerkleNodesBatch(p)
          \/ Fetch(p)
          \/ SelectErr(p)
          \/ SelectSubtree(p)
          \/ Commit(p)
          \/ Rollback(p)
          \/ IsOpen(p)
    \/ LeakedFetch

SpecFetch == Init /\ [][FetchNext]_vars

\* The scheduler runs every goroutine that can take a step, and every
\* backend read returns: a fetch that can finish does, a select that has a
\* message takes it.  Callers are free never to call again.
FetchFairness ==
    /\ \A p \in Procs : WF_vars(Fetch(p))
    /\ \A p \in Procs : WF_vars(SelectErr(p) \/ SelectSubtree(p))
    /\ WF_vars(LeakedFetch)

SpecFetchLive == SpecFetch /\ FetchFairness

(***************************************************************************)
(* Properties of the transaction lifecycle.                                  *)
(***************************************************************************)
\* C1, first half: once t.stx has been cleared no step sets it again.
C1_NeverReopened == [][stx = "nil" => stx' = "nil"]_vars

\* C1, second half: an IsOpen call returns true exactly when no Commit and no
\* Rollback call (Close's included) has entered its critical section before.
C1_IsOpenIffNotClosed ==
    ret.op = "IsOpen" => (ret.val = <<TRUE>> <=> ~hist.closeCalled)

\* C1: the open/closed state only moves from open to closed: a cleared scope is
\* never set again, and IsOpen returns true if and only if neither Commit nor
\* Rollback has been called on the transaction.
C1_OpenToClosedOnly == C1_NeverReopened /\ []C1_IsOpenIffNotClosed

\* An IsOpen call returned false after the one Commit or Rollback that closed
\* the transaction.
C1_Witness ==
    /\ ret = Return("IsOpen", NoErr, <<FALSE>>)
    /\ hist.closeCalled
    /\ stx = "nil"
    /\ hist.okCloses = 1

\* C2: among any Commit, Rollback and Close calls of one transaction only the
\* first takes effect: cache.Flush runs at most once, at most one Commit or
\* Rollback returns something other than ErrTransactionClosed, and no flush
\* runs once a Rollback has taken effect.
C2_OnlyFirstCloseTakesEffect ==
    /\ [](hist.flushes <= 1 /\ hist.okCloses <= 1)
    /\ [][hist.rolledBack => hist'.flushes = hist.flushes]_vars
    /\ [][hist.flushes = 1 => mutations' = mutations]_vars

\* A Commit flushed dirty subtrees of a read-write transaction and a later
\* Commit or Rollback was turned away.
C2_Witness ==
    /\ hist.flushes = 1
    /\ mutations /= <<>>
    /\ ret.op \in {"Commit", "Rollback"}
    /\ ret.err = ErrTransactionClosed

\* C3: a GetMerkleNodes, SetMerkleNodes, Commit or Rollback call on a
\* transaction that an earlier Commit or Rollback closed returns
\* ErrTransactionClosed, and its step calls neither the subtree cache nor the
\* backend, resolves no revision, starts no fetch and buffers no mutation.
C3_ClosedFailsWithoutEffect ==
    [][(stx = "nil" /\ ret' /= NoRet
            /\ ret'.op \in {"GetMerkleNodes", "SetMerkleNodes", "Commit", "Rollback"})
        => /\ ret' = Return(ret'.op, ErrTransactionClosed, <<>>)
           /\ io' = {}
           /\ UNCHANGED <<cache, dirty, mutations, call, getLatestRootOnce,
                          readers, leaked>>
           /\ hist'.flushes = hist.flushes
           /\ hist'.latestSTHCalls = hist.latestSTHCalls]_vars

\* A SetMerkleNodes call on a transaction closed by a Commit that had flushed
\* dirty subtrees was turned away.
C3_Witness ==
    /\ ret = Return("SetMerkleNodes", ErrTransactionClosed, <<>>)
    /\ stx = "nil"
    /\ hist.flushes = 1
    /\ dirty /= {}

\* C4: once a Commit's cache flush has returned an error the transaction is
\* closed: IsOpen returns false and GetMerkleNodes, SetMerkleNodes, Commit and
\* Rollback return ErrTransactionClosed from then on.
C4_ClosedAfterFailedFlush ==
    /\ [](hist.flushFailed => stx = "nil")
    /\ []((ret.op = "Commit" /\ ret.err \notin {NoErr, ErrTransactionClosed})
             => stx = "nil")
    /\ [][(hist.flushFailed /\ ret' /= NoRet)
            => /\ ret'.op = "IsOpen" => ret'.val = <<FALSE>>
               /\ ret'.op \in {"GetMerkleNodes", "SetMerkleNodes", "Commit", "Rollback"}
                     => ret'.err = ErrTransactionClosed]_vars

\* The flush of two dirty subtrees failed at the second, after the first was
\* buffered, and a later GetMerkleNodes was turned away.
C4_Witness ==
    /\ hist.flushFailed
    /\ Len(mutations) = 1
    /\ Cardinality(dirty) = 2
    /\ ret = Return("GetMerkleNodes", ErrTransactionClosed, <<>>)

\* C5: SetMerkleNodes on an open transaction whose scope is read-only returns
\* ErrWrongTXType and records nothing for a later flush (stated for the calls
\* whose revision resolution succeeded).
C5_ReadOnlySetFails ==
    (ret.op = "SetMerkleNodes" /\ stx = "ro" /\ _currentSTHErr = NoErr)
        => (ret.err = ErrWrongTXType /\ dirty = {} /\ mutations = <<>>)

(***************************************************************************)
(* Properties of revision resolution.                                        *)
(***************************************************************************)
\* C6: latestSTH runs at most once per transaction and exactly once before
\* any caller gets past getLatestRoot; what it stored never changes, so every
\* caller observes the same head and the same error, and a failed resolution
\* fails every later ReadRevision, WriteRevision and SetMerkleNodes the same
\* way.
C6_ResolvedExactlyOnce ==
    /\ [](hist.latestSTHCalls <= 1)
    /\ []((\E p \in Procs : call[p].pc = "return")
             => getLatestRootOnce = "done" /\ hist.latestSTHCalls = 1)
    /\ [][getLatestRootOnce = "done"
            => UNCHANGED <<getLatestRootOnce, _currentSTH, _currentSTHErr, _writeRev>>]_vars
    /\ []((ret.op \in {"ReadRevision", "WriteRevision"} /\ ret.err /= ErrNilDeref)
             => ret.err = _currentSTHErr)
    /\ []((ret.op = "SetMerkleNodes" /\ _currentSTHErr /= NoErr
              /\ ret.err /= ErrTransactionClosed)
             => ret.err = _currentSTHErr)
    /\ []((ret.op = "ReadRevision" /\ ret.err = NoErr)
             => ret.val = <<_currentSTH[1].TreeRevision>>)

\* Both callers are past getLatestRoot at the same time, after one latestSTH
\* that failed.
C6_Witness ==
    /\ \A p \in Procs : call[p].pc = "return"
    /\ call[1].op /= call[2].op
    /\ hist.latestSTHCalls = 1
    /\ _currentSTHErr = ErrBackend

\* C7: once resolution has succeeded the write revision is the resolved
\* head's revision plus one, WriteRevision returns that value, and it never
\* changes.
C7_WriteRevIsHeadPlusOne ==
    /\ []((getLatestRootOnce = "done" /\ _currentSTHErr = NoErr)
             => /\ _currentSTH /= Nil
                /\ writeRev = [rev |-> _currentSTH[1].TreeRevision + 1, err |-> NoErr]
                /\ ret.op = "WriteRevision"
                      => ret = Return("WriteRevision", NoErr,
                                      <<_currentSTH[1].TreeRevision + 1>>))
    /\ [][(getLatestRootOnce = "done" /\ _currentSTHErr = NoErr)
            => _writeRev' = _writeRev]_vars

\* WriteRevision returned the head's revision plus one, after ReadRevision had
\* resolved the head.
C7_Witness ==
    /\ ret = Return("WriteRevision", NoErr, <<MaxHeadRev + 1>>)
    /\ _currentSTH /= Nil
    /\ _currentSTH[1].TreeRevision = MaxHeadRev

C9_NoLaterRevision ==
    (rd /= Nil /\ rd[1].out /= Nil /\ rd[1].out[1].p /= Nil)
        => LET g == rd[1].out[1] IN
           /\ g.e = NoErr
           /\ g.idx \in 1..Len(rdRows)
           /\ rdRows[g.idx].Revision <= rd[1].rev
           /\ g.p[1].Leaves = Unmarshal(rdRows[g.idx].Subtree).Leaves

\* A read returned a row although a row of a later revision than requested
\* was delivered before it.
C9_Witness ==
    /\ rd /= Nil
    /\ rd[1].out /= Nil
    /\ rd[1].out[1].p /= Nil
    /\ rd[1].out[1].idx > 1
    /\ rdRows[1].Revision > rd[1].rev
    /\ rdRows[rd[1].out[1].idx].Revision = rd[1].rev

\* Whether every row of the read decodes to a subtree of the requested key.
C10_WellFormed ==
    \A i \in 1..Len(rdRows) : rdRows[i].Subtree = StoredSubtree(rdKey)

\* Whether the rows are delivered by descending revision.
C10_Descending ==
    \A i, j \in 1..Len(rdRows) : i < j => rdRows[i].Revision > rdRows[j].Revision

C11_FetchOf(p, id) ==
    /\ call[p].pc = "select"
    /\ call'[p].pc = "select"
    /\ id \in call[p].running
    /\ call'[p].running = call[p].running \ {id}

\* Whether the step is p's handler receiving a nil subtree from c.
C11_TakesNil(p) ==
    /\ call[p].pc = "select"
    /\ call[p].c /= <<>>
    /\ Head(call[p].c) = Nil
    /\ call'[p] /= call[p]
    /\ (call'[p] = Idle \/ call'[p].running = call[p].running)
    /\ ~(ret'.op = "GetMerkleNodes" /\ ret'.err /= NoErr)

\* C11: a fetch for a key with no stored row at or below the read revision
\* (never written, or written only later) yields nil and no error unless the
\* backend read itself fails; the handler leaves a nil result out of its list
\* and goes on, and returns success when that was the last message.
C11_MissingSubtreeIsNil ==
    [][\A p \in Procs :
          /\ \A id \in TxNodes \cup {subtreeIDOf(n) : n \in TxNodes} :
                (C11_FetchOf(p, id)
                    /\ \A i \in 1..Len(store[keyOf(id)]) :
                          store[keyOf(id)][i].Revision > call[p].rev)
                => \/ call'[p].c = Append(call[p].c, Nil) /\ call'[p].errc = call[p].errc
                   \/ /\ call'[p].errc = Append(call[p].errc, ErrBackend)
                      /\ call'[p].c = call[p].c
          /\ C11_TakesNil(p)
                => IF call[p].n + 1 < Cardinality(call[p].want)
                   THEN call'[p].got = call[p].got /\ call'[p].n = call[p].n + 1
                   ELSE /\ ret'.op = "GetMerkleNodes"
                        /\ ret'.err = NoErr
                        /\ cache' = merged(call[p].want, call[p].got)]_vars

\* A GetMerkleNodes at revision 0 found no subtree for either node (the root
\* subtree was never written, the other only at later revisions) and
\* returned success with no node.
C11_Witness ==
    /\ ret = Return("GetMerkleNodes", NoErr, <<{}>>)
    /\ store[KeyRoot] = <<>>
    /\ store[KeyA] /= <<>>
    /\ cache[KeyRoot] = <<EmptySubtree(KeyRoot)>>
    /\ cache[KeyA] = <<EmptySubtree(KeyA)>>

\* C12: a read at revision R that the backend does not fail returns the same
\* subtree and the same error on the stored rows as on the rows of revision at
\* most R alone, whatever the rows of later revisions hold.
C12_LaterRowsInvisible ==
    (rd /= Nil /\ rd[1].out /= Nil /\ rd[1].failAt = 0)
        => LET AtOrBelow(r) == r.Revision <= rd[1].rev
               older == [store EXCEPT ![rdKey] = SelectSeq(rdRows, AtOrBelow)]
               g == rd[1].out[1]
               h == getSubtree(stx, older, 0, rd[1].rev, rd[1].id)
           IN  g.p = h.p /\ g.e = h.e

\* C13: when a fetch of a GetMerkleNodes call has failed, the call can only
\* return the first error sent on errc, with no node list, and the cache
\* takes in none of the subtrees fetched: it never returns success.
C13_FirstErrorNoPartialList ==
    [][\A p \in Procs :
          (call[p].pc = "select" /\ call[p].errc /= <<>> /\ call'[p] = Idle)
              => /\ ret' = Return("GetMerkleNodes", Head(call[p].errc), <<>>)
                 /\ cache' = cache]_vars

\* A GetMerkleNodes call returned the backend error of one of its two
\* fetches after both had finished.
C13_Witness ==
    /\ ret = Return("GetMerkleNodes", ErrBackend, <<>>)
    /\ leaked = 0
    /\ \A k \in Keys : cache[k] = Nil
    /\ stx /= "nil"

\* C14: when a GetMerkleNodes call returns, with success or with an error,
\* none of the fetches it started is still running.
C14_AllFetchesJoined == leaked = 0

(***************************************************************************)
(* Properties of writes: buffering, flush and visibility.                    *)
(***************************************************************************)
\* Whether the last step was the successful Commit of a read-write
\* transaction that had set nodes.
C15_Committed ==
    /\ ret = Return("Commit", NoErr, <<>>)
    /\ hist.flushes = 1
    /\ "cache.Flush" \in io
    /\ dirty /= {}

C16_SetStep ==
    \/ ret'.op = "SetMerkleNodes"
    \/ \E p \in Procs : call'[p] /= call[p] /\ call'[p].op = "SetMerkleNodes"
    \/ dirty' /= dirty

\* C16: a SetMerkleNodes call changes the cache only: it buffers no mutation,
\* calls neither the flush nor a backend write and leaves the store as it
\* is; mutations are buffered by the flushing Commit of a read-write
\* transaction alone, and the store that every subtree read goes to is the
\* one the transaction started on.
C16_WritesOnlyAtCommit ==
    /\ [][C16_SetStep
            => /\ UNCHANGED <<mutations, store>>
               /\ io' \cap {"BufferWrite", "cache.Flush", "stx.Close"} = {}]_vars
    /\ [][mutations' /= mutations
            => /\ ret'.op = "Commit"
               /\ "cache.Flush" \in io'
               /\ stx = "rw"]_vars
    /\ [](mutations /= <<>> => hist.flushes = 1)
    /\ [](store = StoreFor(MaxHeadRev))

\* SetMerkleNodes set a node in each subtree of an open read-write
\* transaction: both subtrees are dirty in the cache and nothing is buffered.
C16_Witness ==
    /\ ret = Return("SetMerkleNodes", NoErr, <<>>)
    /\ stx = "rw"
    /\ dirty = Keys
    /\ mutations = <<>>
    /\ "cache.SetNodeHash" \in io

\* C17: a Rollback of an open transaction returns nil and closes it without
\* flushing: its step calls neither cache.Flush nor the backend, buffers no
\* mutation and leaves cache and store as they are, however many subtrees
\* are dirty; and nothing is buffered at any later time either.
C17_RollbackFlushesNothing ==
    /\ [][(stx /= "nil" /\ ret'.op = "Rollback")
            => /\ ret' = Return("Rollback", NoErr, <<>>)
               /\ stx' = "nil"
               /\ io' = {}
               /\ hist'.flushes = hist.flushes
               /\ UNCHANGED <<mutations, store, cache, dirty>>]_vars
    /\ [][hist.rolledBack => UNCHANGED <<mutations, store>>]_vars
    /\ [](hist.rolledBack => mutations = <<>> /\ hist.flushes = 0)

\* A Rollback closed a read-write transaction in which both subtrees were
\* dirty.
C17_Witness ==
    /\ ret = Return("Rollback", NoErr, <<>>)
    /\ stx = "nil"
    /\ dirty = Keys
    /\ hist.rolledBack
    /\ heads = GoodHeads(MaxHeadRev)

\* C18: a Commit of an open transaction on a read-only scope closes the
\* scope, returns nil and leaves the transaction closed; its step does not
\* call cache.Flush, buffers no mutation and changes neither cache nor store,
\* whatever the cache holds.
C18_ReadOnlyCommitWritesNothing ==
    [][(stx = "ro" /\ ret'.op = "Commit")
        => /\ ret' = Return("Commit", NoErr, <<>>)
           /\ io' = {"stx.Close"}
           /\ stx' = "nil"
           /\ hist'.flushes = hist.flushes
           /\ UNCHANGED <<mutations, store, cache, dirty>>]_vars

\* A Commit closed a read-only transaction that had resolved its head.
C18_Witness ==
    /\ ret = Return("Commit", NoErr, <<>>)
    /\ io = {"stx.Close"}
    /\ stx = "nil"
    /\ hist.flushes = 0
    /\ mutations = <<>>
    /\ getLatestRootOnce = "done"

\* Whether the step is the Rollback half of p's Close.
C19_CloseRollbackOf(p) ==
    /\ call[p] = [op |-> "Close", pc |-> "Rollback"]
    /\ call'[p] = Idle

\* C19: every Close returns nil and leaves the transaction closed.  A Close
\* that finds the transaction open goes on to Rollback: when the transaction
\* is still open then, the Rollback closes it without flushing; when a
\* concurrent Commit or Rollback closed it in between, Close still returns
\* nil and changes nothing.  A Close that finds the transaction closed
\* returns nil at once.
C19_CloseIsSafe ==
    /\ [](ret.op = "Close" => (ret = Return("Close", NoErr, <<>>) /\ stx = "nil"))
    /\ [][\A p \in Procs :
            C19_CloseRollbackOf(p)
                => /\ ret' = Return("Close", NoErr, <<>>)
                   /\ stx' = "nil"
                   /\ io' = {}
                   /\ UNCHANGED <<mutations, cache, dirty, store>>
                   /\ IF stx /= "nil"
                      THEN /\ hist'.rolledBack
                           /\ hist'.okCloses = hist.okCloses + 1
                           /\ hist'.flushes = hist.flushes
                      ELSE hist' = hist]_vars
    /\ [][(ret'.op = "Close" /\ call' = call)
            => stx = "nil" /\ UNCHANGED <<txFields, hist>>]_vars
    /\ [][\A p \in Procs :
            (call[p] = Idle /\ call'[p] = [op |-> "Close", pc |-> "Rollback"])
                => stx /= "nil" /\ UNCHANGED <<txFields, hist>>]_vars

\* A Close returned nil on a transaction that a Commit had flushed and
\* closed and that no Rollback had found open.
C19_Witness ==
    /\ ret = Return("Close", NoErr, <<>>)
    /\ stx = "nil"
    /\ hist.flushes = 1
    /\ hist.okCloses = 1
    /\ ~hist.rolledBack
    /\ mutations /= <<>>

(***************************************************************************)
(* Properties of snapshotTX.                                                 *)
(***************************************************************************)
\* C20: Commit, Rollback and Close of a snapshot transaction do the same:
\* the call that finds the scope set closes it, clears it and returns nil;
\* every call that finds it cleared returns ErrTransactionClosed and does
\* nothing; so of any calls, concurrent or not, exactly the first to take
\* the lock succeeds.
C20_SnapshotFirstCloseWins ==
    /\ [](hist.okCloses <= 1)
    /\ [](ret.op \in SnapshotOps => (stx = "nil" /\ hist.okCloses = 1))
    /\ [][ret'.op \in SnapshotOps
            => /\ stx' = "nil"
               /\ IF stx /= "nil"
                  THEN /\ ret' = Return(ret'.op, NoErr, <<>>)
                       /\ io' = {"stx.Close"}
                       /\ hist.okCloses = 0
                  ELSE /\ ret' = Return(ret'.op, ErrTransactionClosed, <<>>)
                       /\ io' = {}
                       /\ hist' = hist]_vars

\* A Rollback was turned away after another call had closed the snapshot
\* transaction, while a Commit and a Close are waiting for the lock.
C20_Witness ==
    /\ ret = Return("snapshotTX.Rollback", ErrTransactionClosed, <<>>)
    /\ hist.okCloses = 1
    /\ stx = "nil"
    /\ \E p \in SnapshotProcs : call[p] = [op |-> "snapshotTX.Commit", pc |-> "Lock"]
    /\ \E p \in SnapshotProcs : call[p] = [op |-> "snapshotTX.Close", pc |-> "Lock"]

(***************************************************************************)
(* Properties of subtreeKey.                                                 *)
(***************************************************************************)
\* The byte-aligned prefix a node id denotes: its length and its whole bytes.
C21_PrefixOf(id) ==
    <<id.PrefixLenBits, [j \in 1..(id.PrefixLenBits \div 8) |-> id.Path[j]]>>

\* What subtreeKey and getSubtree returned for the i-th id, once called.
C21_KeyIsPrefix(i) ==
    LET id == rd[i].id
        k == rd[i].key[1]
        g == rd[i].out[1]
    IN  IF id.PrefixLenBits % 8 = 0
        THEN /\ k.err = NoErr
             /\ k.key /= Nil
             /\ Len(k.key[1]) = id.PrefixLenBits \div 8
             /\ \A j \in 1..Len(k.key[1]) : k.key[1][j] = id.Path[j]
             /\ g.e /= ErrNotAligned
             /\ g.read
        ELSE /\ k.err = ErrNotAligned
             /\ k.key = Nil
             /\ g.e = ErrNotAligned
             /\ g.p = Nil
             /\ ~g.read
             /\ ~g.panic

\* C21: for a node id whose prefix length is a multiple of 8, subtreeKey
\* returns the first PrefixLenBits/8 bytes of the path and no error, and two
\* such ids have the same key exactly when they have the same prefix; for
\* every other id it returns the alignment error and no key, and getSubtree
\* returns that error without a backend read.
C21_SubtreeKeyTotal ==
    /\ [](\A i \in 1..Len(rd) : rd[i].out /= Nil => C21_KeyIsPrefix(i))
    /\ []((\A i \in 1..Len(rd) : rd[i].out /= Nil /\ rd[i].id.PrefixLenBits % 8 = 0)
             => (rd[1].key = rd[2].key <=> C21_PrefixOf(rd[1].id) = C21_PrefixOf(rd[2].id)))
    /\ [][\A i \in 1..Len(rd) :
            (rd[i].out = Nil /\ rd'[i].out /= Nil /\ rd[i].id.PrefixLenBits % 8 /= 0)
                => io' = {} /\ UNCHANGED <<txFields, store>>]_vars

\* getSubtree turned away an id of 12 bits without a read, and read the
\* subtree of the 8-bit prefix of the same path, whose key is the first byte.
C21_Witness ==
    /\ rd[1].id = NodeID(<<1, 0>>, 12)
    /\ rd[2].id = NodeID(<<1, 0>>, 8)
    /\ rd[1].out /= Nil
    /\ rd[1].out[1].e = ErrNotAligned
    /\ rd[2].out /= Nil
    /\ rd[2].out[1].read
    /\ rd[2].key = <<[key |-> <<<<1>>>>, err |-> NoErr]>>

(***************************************************************************)
(* Properties of SetMerkleNodes' loader.                                     *)
(***************************************************************************)
\* Whether caller p of SetMerkleNodes has its write revision and is about to
\* set its nodes.
C22_AboutToSet(p) ==
    /\ ~crashed
    /\ call[p] = [op |-> "SetMerkleNodes", pc |-> "return"]
    /\ writeRev.err = NoErr

\* C22: whatever nodes a SetMerkleNodes call sets and whatever the table
\* holds, every read its loader makes for a subtree that is not cached is at
\* the resolved head revision, which is the write revision minus one, and the
\* row it takes as the base, if any, has a revision of at most the head
\* revision: never the write revision or a later one.
C22_LoaderReadsAtHead ==
    \A p \in Procs :
        C22_AboutToSet(p)
            => \A nodes \in NodeLists, failNode \in 0..MaxNodes :
                  LET r == setNodes(cache, dirty, nodes, 1, failNode, writeRev.rev, stx) IN
                  /\ _currentSTH /= Nil
                  /\ \A n \in 1..Len(nodes) :
                        (r.err = NoErr /\ cache[keyOf(subtreeIDOf(nodes[n].NodeID))] = Nil)
                            => \E l \in r.loads : l.key = keyOf(subtreeIDOf(nodes[n].NodeID))
                  /\ \A l \in r.loads :
                        /\ l.rev = _currentSTH[1].TreeRevision
                        /\ l.rev = _writeRev - 1
                        /\ l.idx /= 0
                              => /\ store[l.key][l.idx].Revision <= _currentSTH[1].TreeRevision
                                 /\ store[l.key][l.idx].Revision < _writeRev
                        /\ (\E i \in 1..Len(store[l.key]) : store[l.key][i].Revision <= l.rev)
                              => l.idx /= 0

\* SetMerkleNodes loaded and set the subtree of KeyA on a table that holds a
\* row of that subtree at the transaction's write revision.
C22_Witness ==
    /\ ret = Return("SetMerkleNodes", NoErr, <<>>)
    /\ "Read" \in io
    /\ KeyA \in dirty
    /\ \E i \in 1..Len(store[KeyA]) : store[KeyA][i].Revision = _writeRev
    /\ \E i \in 1..Len(store[KeyA]) : store[KeyA][i].Revision = _writeRev - 1

(***************************************************************************)
(* Properties of fetches and closing.                                        *)
(***************************************************************************)
\* C23: once Commit or Rollback has cleared t.stx no fetch task uses the
\* scope: no step issues a backend read and no getSubtree call dereferences
\* the cleared field; and while a GetMerkleNodes call is collecting its
\* fetches, no step clears t.stx.
C23_NoFetchAfterClose ==
    /\ [][stx = "nil"
            => /\ "Read" \notin io'
               /\ ~(ret'.panic /\ ret'.op = "getSubtree")]_vars
    /\ [][(\E p \in Procs : call[p].op = "GetMerkleNodes") => stx' = stx]_vars

(***************************************************************************)
(* Properties of the revision of buffered mutations.                         *)
(***************************************************************************)
\* Whether the revision resolution has completed and succeeded.
C24_Resolved ==
    /\ getLatestRootOnce = "done"
    /\ _currentSTHErr = NoErr
    /\ _currentSTH /= Nil
    /\ _writeRev = _currentSTH[1].TreeRevision + 1

\* C24: whenever the cache holds a dirty subtree the resolution has completed
\* with success, so the field storeSubtrees reads holds the head revision
\* plus one; every buffered mutation carries that revision, never the
\* default 0, and nothing is buffered after a failed resolution.
C24_MutationsAtResolvedRev ==
    /\ [](dirty /= {} => C24_Resolved)
    /\ [](mutations /= <<>> => C24_Resolved)
    /\ [](\A i \in 1..Len(mutations) :
             /\ mutations[i].Revision = _currentSTH[1].TreeRevision + 1
             /\ mutations[i].Revision /= 0)
    /\ [][mutations' /= mutations => (dirty /= {} /\ C24_Resolved)]_vars
    /\ []((getLatestRootOnce = "done" /\ _currentSTHErr /= NoErr)
             => (dirty = {} /\ mutations = <<>>))

\* A Commit buffered the one dirty subtree at the head revision plus one,
\* after a single resolution.
C24_Witness ==
    /\ ret = Return("Commit", NoErr, <<>>)
    /\ dirty = {KeyRoot}
    /\ Len(mutations) = 1
    /\ mutations[1].Revision = MaxHeadRev + 1
    /\ hist.latestSTHCalls = 1
    /\ _writeRev = MaxHeadRev + 1

(***************************************************************************)
(* Termination of the miss handler and of its fetch tasks.                   *)
(***************************************************************************)
\* Whether the step is a fetch task of p's handler coming to its end.
C25_FetchEnds(p) ==
    /\ call[p].pc = "select"
    /\ call'[p].pc = "select"
    /\ call'[p].running /= call[p].running

\* Each fetch task ends by sending a message, and sends one message only.
C25_OneMessageEach ==
    [][/\ ((leaked' < leaked) \/ (\E p \in Procs : C25_FetchEnds(p)))
            => ("chan.send" \in io' /\ ~crashed')
       /\ \A p \in Procs :
             C25_FetchEnds(p)
                 => Len(call'[p].c) + Len(call'[p].errc)
                        = Len(call[p].c) + Len(call[p].errc) + 1]_vars

\* Both channels have room for the message of every task that is still
\* running, so no send waits; and the handler has taken fewer messages than
\* it has ids while it is still in its loop.
C25_SendsNeverBlock ==
    \A p \in Procs :
        call[p].pc = "select"
            => /\ Len(call[p].c) + Cardinality(call[p].running) <= chanCap(call[p].want)
               /\ Len(call[p].errc) + Cardinality(call[p].running) <= chanCap(call[p].want)
               /\ call[p].n < Cardinality(call[p].want)

\* Every handler returns and every task left behind comes to its end.
C25_AllTerminate ==
    /\ \A p \in Procs : (call[p].pc = "select") ~> (call[p] = Idle)
    /\ (leaked > 0) ~> (leaked = 0)

\* C25: if every backend read returns, every fetch task that GetMerkleNodes'
\* miss handler starts sends exactly one message, on c or on errc, and its
\* send never waits, also when the handler has returned on an earlier error;
\* so every task comes to its end, and the handler returns after taking at
\* most one message for each id.
C25_NoBlockedFetch ==
    /\ C25_OneMessageEach
    /\ []C25_SendsNeverBlock
    /\ C25_AllTerminate

====
